---- MODULE Spec2Model ----
(***************************************************************************)
(* Eternity II parallel backtracking solver (src/done.c): the puzzle       *)
(* model, the corner classifier, the per-process backtracking search and   *)
(* the MPI termination protocol, as a state machine over the MPI ranks.    *)
(***************************************************************************)
EXTENDS Integers, Sequences, FiniteSets, TLC

\* ------------------------------------------------------------------ bounds
\* Largest MPI communicator size explored (the W of "mpirun -np W").
MaxW == 2
\* The polling interval of play (1000 in the source), scaled down.
CheckInterval == 3
\* Largest edge colour drawn for the inputs of the pure functions.
MaxColor == 2

\* A board cell holding no tile (calloc'ed / NULL pointer).
NULL == -1

Sides == 0..3
Rotations == 0..3

\* ------------------------------------------------------------ puzzle model
\* typedef tile: colours in base orientation (N, E, S, W), rotation, id, used.
\* colors is a 1-based tuple: colors[c + 1] is the C array's colors[c].
tile(i, cols) ==
    [colors |-> cols, rotation |-> 0, id |-> i, used |-> 0]

Cells(n) == (0..(n - 1)) \X (0..(n - 1))

\* initialize(): the game read from the input stream: every tile unrotated,
\* unused, ids in reading order, an all-NULL board.
initialize(input) ==
    [size |-> input.bsize,
     tile_count |-> input.bsize * input.bsize,
     board |-> [c \in Cells(input.bsize) |-> NULL],
     tiles |-> [i \in 0..(input.bsize * input.bsize - 1) |->
                    tile(i, input.cols[i + 1])]]

\* X_COLOR(t, s): colour shown on side s under the tile's current rotation.
X_COLOR(t, s) == t.colors[((s + 4 - t.rotation) % 4) + 1]
N_COLOR(t) == X_COLOR(t, 0)
E_COLOR(t) == X_COLOR(t, 1)
S_COLOR(t) == X_COLOR(t, 2)
W_COLOR(t) == X_COLOR(t, 3)

\* The tile a board cell points to (the board holds pointers into tiles[]).
At(game, x, y) == game.tiles[game.board[<<x, y>>]]

\* A plausible slip in valid_move: the check against the western neighbour
\* is left out.
valid_move_noWestNeighbour(game, x, y, t) ==
    IF x = 0 /\ W_COLOR(t) # 0 THEN FALSE
    ELSE IF y = 0 /\ N_COLOR(t) # 0 THEN FALSE
    ELSE IF x = game.size - 1 /\ E_COLOR(t) # 0 THEN FALSE
    ELSE IF y = game.size - 1 /\ S_COLOR(t) # 0 THEN FALSE
    ELSE IF x < game.size - 1 /\ game.board[<<x + 1, y>>] # NULL
            /\ W_COLOR(At(game, x + 1, y)) # E_COLOR(t) THEN FALSE
    ELSE IF y > 0 /\ game.board[<<x, y - 1>>] # NULL
            /\ S_COLOR(At(game, x, y - 1)) # N_COLOR(t) THEN FALSE
    ELSE IF y < game.size - 1 /\ game.board[<<x, y + 1>>] # NULL
            /\ N_COLOR(At(game, x, y + 1)) # S_COLOR(t) THEN FALSE
    ELSE TRUE

\* A plausible slip in valid_move: the eastern border test compares against
\* the board size instead of size - 1, so it never applies.
valid_move_eastBorderOffByOne(game, x, y, t) ==
    IF x = 0 /\ W_COLOR(t) # 0 THEN FALSE
    ELSE IF y = 0 /\ N_COLOR(t) # 0 THEN FALSE
    ELSE IF x = game.size /\ E_COLOR(t) # 0 THEN FALSE
    ELSE IF y = game.size - 1 /\ S_COLOR(t) # 0 THEN FALSE
    ELSE IF x > 0 /\ game.board[<<x - 1, y>>] # NULL
            /\ E_COLOR(At(game, x - 1, y)) # W_COLOR(t) THEN FALSE
    ELSE IF x < game.size - 1 /\ game.board[<<x + 1, y>>] # NULL
            /\ W_COLOR(At(game, x + 1, y)) # E_COLOR(t) THEN FALSE
    ELSE IF y > 0 /\ game.board[<<x, y - 1>>] # NULL
            /\ S_COLOR(At(game, x, y - 1)) # N_COLOR(t) THEN FALSE
    ELSE IF y < game.size - 1 /\ game.board[<<x, y + 1>>] # NULL
            /\ N_COLOR(At(game, x, y + 1)) # S_COLOR(t) THEN FALSE
    ELSE TRUE

\* valid_move(game, x, y, tile): the chain of early returns, in source order.
valid_move(game, x, y, t) ==
    IF x = 0 /\ W_COLOR(t) # 0 THEN FALSE
    ELSE IF y = 0 /\ N_COLOR(t) # 0 THEN FALSE
    ELSE IF x = game.size - 1 /\ E_COLOR(t) # 0 THEN FALSE
    ELSE IF y = game.size - 1 /\ S_COLOR(t) # 0 THEN FALSE
    ELSE IF x > 0 /\ game.board[<<x - 1, y>>] # NULL
            /\ E_COLOR(At(game, x - 1, y)) # W_COLOR(t) THEN FALSE
    ELSE IF x < game.size - 1 /\ game.board[<<x + 1, y>>] # NULL
            /\ W_COLOR(At(game, x + 1, y)) # E_COLOR(t) THEN FALSE
    ELSE IF y > 0 /\ game.board[<<x, y - 1>>] # NULL
            /\ S_COLOR(At(game, x, y - 1)) # N_COLOR(t) THEN FALSE
    ELSE IF y < game.size - 1 /\ game.board[<<x, y + 1>>] # NULL
            /\ N_COLOR(At(game, x, y + 1)) # S_COLOR(t) THEN FALSE
    ELSE TRUE

\* -------------------------------------------------------- corner classifier
\* The four tests of one loop iteration of eh_peca_de_quina, in source order,
\* on the tile as rotated by the caller: the corner type, or NULL.
CornerTypeAt(t) ==
    IF N_COLOR(t) = 0 /\ W_COLOR(t) = 0 THEN 0
    ELSE IF N_COLOR(t) = 0 /\ E_COLOR(t) = 0 THEN 1
    ELSE IF S_COLOR(t) = 0 /\ W_COLOR(t) = 0 THEN 2
    ELSE IF S_COLOR(t) = 0 /\ E_COLOR(t) = 0 THEN 3
    ELSE NULL

RECURSIVE QuinaFrom(_, _)
\* The loop "for (rot = 0; rot < 4; rot++)" of eh_peca_de_quina from rot on.
\* The result carries the tile as the function leaves it (t->rotation is
\* assigned on every iteration and never restored here).
QuinaFrom(t, rot) ==
    IF rot >= 4
    THEN [ret |-> 0, rotacao_valida |-> NULL, tipo_canto |-> NULL, t |-> t]
    ELSE LET t2 == [t EXCEPT !.rotation = rot]
         IN  IF CornerTypeAt(t2) # NULL
             THEN [ret |-> 1, rotacao_valida |-> rot,
                   tipo_canto |-> CornerTypeAt(t2), t |-> t2]
             ELSE QuinaFrom(t2, rot + 1)

\* A plausible slip in the classifier: the rotations are scanned downwards.
eh_peca_de_quina_lastRotation(t) ==
    LET hits == {rot \in Rotations :
                    CornerTypeAt([t EXCEPT !.rotation = rot]) # NULL}
        top == CHOOSE rot \in hits : \A o \in hits : o <= rot
    IN  IF hits = {}
        THEN [ret |-> 0, rotacao_valida |-> NULL, tipo_canto |-> NULL,
              t |-> [t EXCEPT !.rotation = 0]]
        ELSE [ret |-> 1, rotacao_valida |-> top,
              tipo_canto |-> CornerTypeAt([t EXCEPT !.rotation = top]),
              t |-> [t EXCEPT !.rotation = top]]

\* eh_peca_de_quina(t, &rotacao_valida, &tipo_canto).
eh_peca_de_quina(t) == QuinaFrom(t, 0)

RECURSIVE SepararFrom_noRestore(_, _, _)
\* A plausible slip in the enumeration: the rotation the classifier left on
\* the tile is not put back.
SepararFrom_noRestore(g, i, corners) ==
    IF i >= g.tile_count
    THEN [corners |-> corners, num_corner_pieces |-> Len(corners), g |-> g]
    ELSE LET current_tile == g.tiles[i]
             q == eh_peca_de_quina(current_tile)
             g2 == [g EXCEPT !.tiles[i] = q.t]
         IN  IF q.ret = 1
             THEN SepararFrom_noRestore(g2, i + 1,
                      Append(corners, [tile_id |-> current_tile.id,
                                       rotation |-> q.rotacao_valida,
                                       corner_type |-> q.tipo_canto]))
             ELSE SepararFrom_noRestore(g2, i + 1, corners)

RECURSIVE SepararFrom(_, _, _)
\* The loop over the tiles of separar_pecas_de_quina from tile i on, with the
\* corners collected so far: classify, append on a match, restore rotation.
SepararFrom(g, i, corners) ==
    IF i >= g.tile_count
    THEN [corners |-> corners, num_corner_pieces |-> Len(corners), g |-> g]
    ELSE LET current_tile == g.tiles[i]
             rotacao_original == current_tile.rotation
             q == eh_peca_de_quina(current_tile)
             restored == [q.t EXCEPT !.rotation = rotacao_original]
             g2 == [g EXCEPT !.tiles[i] = restored]
         IN  IF q.ret = 1
             THEN SepararFrom(g2, i + 1,
                      Append(corners, [tile_id |-> current_tile.id,
                                       rotation |-> q.rotacao_valida,
                                       corner_type |-> q.tipo_canto]))
             ELSE SepararFrom(g2, i + 1, corners)

\* separar_pecas_de_quina(g, &num_corner_pieces): corners[k + 1] is the C
\* array's corners[k].
separar_pecas_de_quina(g) == SepararFrom(g, 0, <<>>)

\* ------------------------------------------------------------------ inputs
\* The input streams explored: board dimension and the base colours of the
\* tiles in reading order.
PAllNW == [bsize |-> 2,
           cols |-> << <<0, 1, 1, 0>>, <<0, 1, 1, 0>>,
                       <<0, 1, 1, 0>>, <<0, 1, 1, 0>> >>]
PMix == [bsize |-> 2,
         cols |-> << <<0, 0, 2, 1>>, <<0, 1, 1, 0>>,
                     <<0, 1, 2, 0>>, <<0, 2, 2, 0>> >>]
PLong == [bsize |-> 2,
          cols |-> << <<0, 0, 1, 1>>, <<0, 1, 1, 0>>,
                      <<0, 1, 1, 0>>, <<0, 1, 1, 0>> >>]
PUnsolvable == [bsize |-> 2,
                cols |-> << <<0, 1, 2, 0>>, <<0, 1, 2, 0>>,
                            <<0, 1, 2, 0>>, <<0, 1, 2, 0>> >>]
PNearMiss == [bsize |-> 2,
              cols |-> << <<0, 1, 1, 0>>, <<0, 0, 1, 2>>,
                          <<1, 1, 0, 0>>, <<1, 0, 0, 1>> >>]
POneCorner == [bsize |-> 2,
               cols |-> << <<0, 1, 1, 0>>, <<1, 1, 1, 1>>,
                           <<0, 1, 0, 1>>, <<1, 2, 1, 2>> >>]
PNoCorner == [bsize |-> 2,
              cols |-> << <<0, 1, 0, 1>>, <<1, 1, 1, 1>>,
                          <<1, 0, 1, 0>>, <<0, 2, 0, 2>> >>]
\* The tiles of PMix with the NW-classified tile first: the first corner
\* placement extends to exactly one tiling.
PMixNW == [bsize |-> 2,
           cols |-> << <<0, 1, 1, 0>>, <<0, 0, 2, 1>>,
                       <<0, 1, 2, 0>>, <<0, 2, 2, 0>> >>]
\* The tiles of PNearMiss with the SW- and SE-classified tiles first.
PSouth == [bsize |-> 2,
           cols |-> << <<1, 1, 0, 0>>, <<1, 0, 0, 1>>,
                       <<0, 1, 1, 0>>, <<0, 0, 1, 2>> >>]
PSingle == [bsize |-> 1, cols |-> << <<0, 0, 0, 0>> >>]
PSingleNoCorner == [bsize |-> 1, cols |-> << <<0, 1, 0, 1>> >>]

Puzzles == {PAllNW, PMix, PMixNW, PLong, PUnsolvable, PNearMiss, PSouth,
            POneCorner, PNoCorner, PSingle, PSingleNoCorner}

\* MPI_Send is a standard-mode send: the library may buffer the message and
\* return at once ("eager") or return only when the matching receive has
\* taken it ("rendezvous"); both are explored.
SendModes == {"eager", "rendezvous"}

\* ------------------------------------------------------------------- state
VARIABLES
    input,      \* the puzzle on rank 0's stdin
    size,       \* MPI_Comm_size(MPI_COMM_WORLD)
    sendMode,   \* how this MPI build completes MPI_Send
    proc,       \* proc[rank]: the globals and main()'s locals of that process
    chan,       \* chan[<<src, dst>>]: tag-999 messages sent and not yet received
    worldLog,   \* the collectives rank 0 has called on MPI_COMM_WORLD, in order
    unit        \* the call record of the pure-function specifications

vars == <<input, size, sendMode, proc, chan, worldLog, unit>>

Procs == 0..(size - 1)

NoGame == [size |-> 0, tile_count |-> 0, board |-> <<>>, tiles |-> <<>>]

\* The state of a process after MPI_Init / MPI_Comm_rank / MPI_Comm_size and
\* the initialisers of the globals and of main's locals.
ProcInit(r, n) ==
    [rank |-> r, size |-> n,
     pc |-> IF r = 0 THEN "initialize" ELSE "bcast_num_corners",
     g |-> NoGame, corners |-> <<>>, num_corners |-> 0,
     solution_found |-> 0, effective_processes |-> 0, active |-> 0,
     corner_idx |-> NULL, stack |-> <<>>, sendp |-> 0,
     check_counter |-> 0, global_stop |-> 0, global_solution_found |-> 0,
     solution_owner |-> -1, local_solution |-> 0,
     active_comm |-> {}, global_result |-> 0, winner_rank |-> -1,
     exit_status |-> NULL, printed |-> <<>>,
     collIdx |-> 0,     \* collectives this process has called on MPI_COMM_WORLD
     redIdx |-> 0,      \* collectives this process has called on active_comm
     unread |-> 0,      \* play entries made while a notification sat unread
     nsent |-> 0,       \* MPI_Send calls issued
     sentTo |-> [p \in 0..(n - 1) |-> 0],  \* MPI_Send calls issued, per destination
     unrestored |-> {},  \* cells of the play calls that returned 0 leaving
                         \* the board or a used flag other than they found it
     lastEntry |-> [told |-> FALSE, counter |-> 0, probed |-> FALSE,
                    payload |-> NULL, atOnce |-> FALSE]]  \* the latest entry of play

NoUnit == [op |-> "none"]

Init ==
    /\ input \in Puzzles
    /\ size \in 1..MaxW
    /\ sendMode \in SendModes
    /\ proc = [r \in Procs |-> ProcInit(r, size)]
    /\ chan = [c \in Procs \X Procs |-> <<>>]
    /\ worldLog = <<>>
    /\ unit = NoUnit

\* ------------------------------------------------------- backtracking search
\* What a call of play finds on entry: the tile of every cell and the used
\* flag of every tile (kept with the frame to compare at its return).
Snapshot(g) ==
    [board |-> g.board, used |-> [i \in DOMAIN g.tiles |-> g.tiles[i].used]]

\* A frame of play: its arguments, its loop variables and its entry snapshot.
Frame(g, x, y) ==
    [x |-> x, y |-> y, i |-> 0, rot |-> 0, snap |-> Snapshot(g)]

Top(L) == L.stack[Len(L.stack)]
Pop(L) == SubSeq(L.stack, 1, Len(L.stack) - 1)

RECURSIVE TileLoop(_, _, _, _)
RECURSIVE RotLoop(_, _, _, _, _)
\* A plausible slip in play: "if (game->tiles[i].used) continue;" is left
\* out, so that a tile already on the board is offered again.
TileLoop_noSkipUsed(g, x, y, i) ==
    IF i >= g.tile_count THEN [found |-> FALSE, g |-> g, i |-> i, rot |-> 0]
    ELSE RotLoop([g EXCEPT !.tiles[i].used = 1], x, y, i, 0)

\* play's loop "for (i = 0; i < tile_count; i++)" from tile i on, up to the
\* first valid move: used tiles are skipped, a candidate is marked used.
TileLoop(g, x, y, i) ==
    IF i >= g.tile_count THEN [found |-> FALSE, g |-> g, i |-> i, rot |-> 0]
    ELSE IF g.tiles[i].used # 0 THEN TileLoop(g, x, y, i + 1)
    ELSE RotLoop([g EXCEPT !.tiles[i].used = 1], x, y, i, 0)

\* play's loop "for (rot = 0; rot < 4; rot++)" for tile i from rot on: the
\* first valid rotation is placed on the board; when none is left the tile
\* is unmarked and the tile loop goes on.
RotLoop(g, x, y, i, rot) ==
    IF rot >= 4 THEN TileLoop([g EXCEPT !.tiles[i].used = 0], x, y, i + 1)
    ELSE LET g2 == [g EXCEPT !.tiles[i].rotation = rot]
         IN  IF valid_move(g2, x, y, g2.tiles[i])
             THEN [found |-> TRUE,
                   g |-> [g2 EXCEPT !.board[<<x, y>>] = i],
                   i |-> i, rot |-> rot]
             ELSE RotLoop(g2, x, y, i, rot + 1)

\* The next cell to fill after (x, y); <<size, size>> when the board is done.
NextCell(g, x, y) ==
    IF x < g.size - 1 THEN <<x + 1, y>>
    ELSE IF y < g.size - 1 THEN <<0, y + 1>>
    ELSE <<g.size, g.size>>

RECURSIVE Continue(_, _)
RECURSIVE Return0(_)
RECURSIVE Return1(_)
RECURSIVE Success(_)
RECURSIVE SendLoop(_, _)

\* The send loop "for (p = 0; p < size; p++) if (p != rank)" from p on: it
\* stops in front of the next MPI_Send, or falls through to "return 1".
SendLoop(L, p) ==
    IF p >= L.size THEN Return1(L)
    ELSE IF p = L.rank THEN SendLoop(L, p + 1)
    ELSE [L EXCEPT !.pc = "send", !.sendp = p]

\* The body of "if (ny == game->size || play(game, nx, ny))" in the frame on
\* top of the stack: set global_stop, then notify every other rank.
Success(L) == SendLoop([L EXCEPT !.global_stop = 1], 0)

\* "return 1" from the frame on top of the stack: the caller's condition
\* play(game, nx, ny) is true, or the top-level call returns to main.
Return1(L) ==
    IF Len(L.stack) = 1
    THEN [L EXCEPT !.stack = <<>>, !.local_solution = 1, !.pc = "call_split"]
    ELSE Success([L EXCEPT !.stack = Pop(L)])

\* "return 0" from the frame on top of the stack: the caller clears its
\* cell and goes on with the next rotation, or the top-level call returns
\* to main.
Return0(L) ==
    LET f == Top(L)
        LR == IF Snapshot(L.g) = f.snap THEN L
              ELSE [L EXCEPT !.unrestored = @ \cup {<<f.x, f.y>>}]
    IN  IF Len(L.stack) = 1
        THEN [LR EXCEPT !.stack = <<>>, !.local_solution = 0,
                        !.pc = "call_split"]
        ELSE LET caller == L.stack[Len(L.stack) - 1]
                 g2 == [L.g EXCEPT !.board[<<caller.x, caller.y>>] = NULL]
             IN  Continue([LR EXCEPT !.stack = Pop(L), !.g = g2],
                          RotLoop(g2, caller.x, caller.y, caller.i,
                                  caller.rot + 1))

\* The frame on top of the stack goes on from the outcome of its loops: a
\* placed tile leads to the completed board or to the recursive call (a new
\* frame, entered by the next PlayEnter); no candidate left leads to return 0.
Continue(L, res) ==
    IF res.found
    THEN LET f == Top(L)
             here == [f EXCEPT !.i = res.i, !.rot = res.rot]
             nxt == NextCell(res.g, f.x, f.y)
             L2 == [L EXCEPT !.g = res.g,
                             !.stack = Append(Pop(L), here)]
         IN  IF nxt[2] = res.g.size
             THEN Success(L2)
             ELSE [L2 EXCEPT !.stack = Append(L2.stack,
                                 Frame(res.g, nxt[1], nxt[2])),
                             !.pc = "play"]
    ELSE Return0([L EXCEPT !.g = res.g])

\* -------------------------------------------------------------- MPI helpers
Set(L) == proc' = [proc EXCEPT ![L.rank] = L]

Bcast(v) == [op |-> "bcast", val |-> v]

\* The ranks with an unread tag-999 message for rank r (what MPI_Iprobe with
\* MPI_ANY_SOURCE can report).
Senders(r) == {s \in Procs : chan[<<s, r>>] # <<>>}

\* A process counts one more play entry made with a notification unread.
Lag(L, r) == IF Senders(r) # {} THEN L.unread + 1 ELSE L.unread

\* A non-root MPI_Bcast of process r can return: the root has called as many
\* collectives on MPI_COMM_WORLD as r will have after n more, and the
\* root's matching calls are broadcasts. The root's own call never waits.
BcastReady(r, n) ==
    \/ r = 0
    \/ /\ Len(worldLog) >= proc[r].collIdx + n
       /\ \A j \in 1..n : worldLog[proc[r].collIdx + j].op = "bcast"

\* MPI_Comm_split of process r can return: every process of MPI_COMM_WORLD
\* has called as many collectives on it as r.
SplitReady(r) == \A q \in Procs : proc[q].collIdx >= proc[r].collIdx

\* A plausible slip: the reduction hands out a result without waiting for
\* the other members.
ReduceReady_noWait(r, k) == proc[r].redIdx >= k

\* The k-th MPI_Allreduce on active_comm can return: every member has
\* called it.
ReduceReady(r, k) == \A q \in proc[r].active_comm : proc[q].redIdx >= k

\* The rendezvous MPI_Send of process r can return: its message was received.
SendDone(r) == chan[<<r, proc[r].sendp>>] = <<>>

\* ------------------------------------------------------------- main: set-up
\* Rank 0 reads the puzzle and enumerates the corner tiles.
Initialize(r) ==
    /\ proc[r].pc = "initialize"
    /\ LET sep == separar_pecas_de_quina(initialize(input))
       IN  Set([proc[r] EXCEPT !.g = sep.g, !.corners = sep.corners,
                               !.num_corners = sep.num_corner_pieces,
                               !.pc = "bcast_num_corners"])
    /\ UNCHANGED <<input, size, sendMode, chan, worldLog, unit>>

\* MPI_Bcast(&num_corners, 1, MPI_INT, 0, MPI_COMM_WORLD): the root's call is
\* logged; another rank's call returns what the root's call of the same
\* position in the sequence of collectives on the communicator sent.
BcastNumCorners(r) ==
    /\ proc[r].pc = "bcast_num_corners"
    /\ IF r = 0
       THEN /\ worldLog' = Append(worldLog, Bcast(proc[r].num_corners))
            /\ Set([proc[r] EXCEPT !.collIdx = @ + 1, !.pc = "check_corners"])
       ELSE /\ BcastReady(r, 1)
            /\ Set([proc[r] EXCEPT
                      !.num_corners = worldLog[proc[r].collIdx + 1].val,
                      !.collIdx = @ + 1, !.pc = "check_corners"])
            /\ UNCHANGED worldLog
    /\ UNCHANGED <<input, size, sendMode, chan, unit>>

\* A plausible slip: the zero-corner exit returns 0 like a normal exit.
CheckCorners_zeroExitStatus0(r) ==
    /\ proc[r].pc = "check_corners"
    /\ IF proc[r].num_corners = 0
       THEN Set([proc[r] EXCEPT !.exit_status = 0, !.pc = "exit"])
       ELSE LET ep == IF size < proc[r].num_corners THEN size
                      ELSE proc[r].num_corners
                act == IF r < ep THEN 1 ELSE 0
            IN  Set([proc[r] EXCEPT !.effective_processes = ep,
                       !.active = act,
                       !.pc = IF act = 1 THEN "bcast_game" ELSE "final_bcast"])
    /\ UNCHANGED <<input, size, sendMode, chan, worldLog, unit>>

\* A plausible slip: every process counts as active.
CheckCorners_allActive(r) ==
    /\ proc[r].pc = "check_corners"
    /\ IF proc[r].num_corners = 0
       THEN Set([proc[r] EXCEPT !.exit_status = 1, !.pc = "exit"])
       ELSE Set([proc[r] EXCEPT !.effective_processes = size, !.active = 1,
                                !.pc = "bcast_game"])
    /\ UNCHANGED <<input, size, sendMode, chan, worldLog, unit>>

\* "if (num_corners == 0) { MPI_Finalize(); return 1; }", then the partition:
\* effective_processes = min(size, num_corners), active = rank below it.
CheckCorners(r) ==
    /\ proc[r].pc = "check_corners"
    /\ IF proc[r].num_corners = 0
       THEN Set([proc[r] EXCEPT !.exit_status = 1, !.pc = "exit"])
       ELSE LET ep == IF size < proc[r].num_corners THEN size
                      ELSE proc[r].num_corners
                act == IF r < ep THEN 1 ELSE 0
            IN  Set([proc[r] EXCEPT !.effective_processes = ep,
                       !.active = act,
                       !.pc = IF act = 1 THEN "bcast_game" ELSE "final_bcast"])
    /\ UNCHANGED <<input, size, sendMode, chan, worldLog, unit>>

\* The four broadcasts of an active process: size, tile_count, tiles, corners.
\* A non-root process allocates its game (calloc'ed board) and receives the
\* root's tiles and corners byte for byte.
BcastGame(r) ==
    /\ proc[r].pc = "bcast_game"
    /\ IF r = 0
       THEN /\ worldLog' = worldLog \o
                   << Bcast(proc[r].g.size), Bcast(proc[r].g.tile_count),
                      Bcast(proc[r].g.tiles), Bcast(proc[r].corners) >>
            /\ Set([proc[r] EXCEPT !.collIdx = @ + 4, !.pc = "seed"])
       ELSE LET k == proc[r].collIdx
            IN  /\ BcastReady(r, 4)
                /\ Set([proc[r] EXCEPT
                          !.g = [size |-> worldLog[k + 1].val,
                                 tile_count |-> worldLog[k + 2].val,
                                 board |-> [c \in Cells(worldLog[k + 1].val)
                                               |-> NULL],
                                 tiles |-> worldLog[k + 3].val],
                          !.corners = worldLog[k + 4].val,
                          !.collIdx = @ + 4, !.pc = "seed"])
                /\ UNCHANGED worldLog
    /\ UNCHANGED <<input, size, sendMode, chan, unit>>

\* The cell of a corner type (the switch on corner_type).
CornerCell(g, corner_type) ==
    CASE corner_type = 0 -> <<0, 0>>
      [] corner_type = 1 -> <<g.size - 1, 0>>
      [] corner_type = 2 -> <<0, g.size - 1>>
      [] corner_type = 3 -> <<g.size - 1, g.size - 1>>
      [] OTHER -> <<0, 0>>

\* A plausible slip: every process takes the first corner.
CornerIndex_first(r) == 0

\* "int corner_idx = rank;"
CornerIndex(r) == r

\* The board is emptied, every tile unmarked, and the process's corner tile
\* is rotated, marked used and put on its corner cell.
Seed(r) ==
    /\ proc[r].pc = "seed"
    /\ LET L == proc[r]
           idx == CornerIndex(r)
           ci == L.corners[idx + 1]
           g0 == [L.g EXCEPT
                    !.board = [c \in Cells(L.g.size) |-> NULL],
                    !.tiles = [i \in DOMAIN L.g.tiles |->
                                  [L.g.tiles[i] EXCEPT !.used = 0]]]
           g1 == [g0 EXCEPT
                    !.tiles[ci.tile_id].rotation = ci.rotation,
                    !.tiles[ci.tile_id].used = 1,
                    !.board[CornerCell(g0, ci.corner_type)] = ci.tile_id]
       IN  Set([L EXCEPT !.corner_idx = idx, !.g = g1, !.pc = "find_start"])
    /\ UNCHANGED <<input, size, sendMode, chan, worldLog, unit>>

\* The empty cells of a board in the order of the start scan: rows top to
\* bottom, each row left to right.
RowMajorBefore(a, b) == a[2] < b[2] \/ (a[2] = b[2] /\ a[1] < b[1])
EmptyCells(g) == {c \in Cells(g.size) : g.board[c] = NULL}
FirstEmpty(g) ==
    CHOOSE c \in EmptyCells(g) :
        \A d \in EmptyCells(g) : d = c \/ RowMajorBefore(c, d)

\* The scan for the first empty cell and the top-level call of play; with
\* no empty cell play is not called and local_solution stays 0.
FindStart(r) ==
    /\ proc[r].pc = "find_start"
    /\ LET L == proc[r]
       IN  IF EmptyCells(L.g) = {}
           THEN Set([L EXCEPT !.local_solution = 0, !.pc = "call_split"])
           ELSE Set([L EXCEPT
                       !.stack = << Frame(L.g, FirstEmpty(L.g)[1],
                                           FirstEmpty(L.g)[2]) >>,
                       !.pc = "play"])
    /\ UNCHANGED <<input, size, sendMode, chan, worldLog, unit>>

\* ------------------------------------------------------------ play and stop
\* A plausible slip: the mailbox is polled at half the rate.
PollDue_halfRate(c) == c % (2 * CheckInterval) = 0

\* "if (check_counter % 1000 == 0)", with the interval scaled down.
PollDue(c) == c % CheckInterval = 0

\* A plausible slip: the test of line 306 is left out, so that only the
\* entry that receives the notification returns at once.
PeerFound_ignored(L) == FALSE

\* A plausible slip: line 306 tests the process's own stop flag again.
PeerFound_ownFlag(L) == L.global_stop # 0

\* "if (global_solution_found) return 0;"
PeerFound(L) == L.global_solution_found # 0

\* What an entry of play records about itself: whether the search had been
\* told to stop when it was entered, the value of check_counter it tested,
\* whether it called MPI_Iprobe, the payload it received (NULL: none), and
\* whether it returned 0 before the tile loop.
EntryRecord(L, c, probed, payload, atOnce) ==
    [told |-> (L.global_stop # 0 \/ L.global_solution_found # 0),
     counter |-> c, probed |-> probed, payload |-> payload, atOnce |-> atOnce]

\* One entry of play(game, x, y) for the frame on top of the stack: the stop
\* tests, the periodic MPI_Iprobe / MPI_Recv, then the placement loops up to
\* the next recursive call, the first MPI_Send of a success, or the return
\* to main.
PlayEnter(r) ==
    /\ proc[r].pc = "play"
    /\ LET L == proc[r]
           f == Top(L)
           c == L.check_counter + 1
           L1 == [L EXCEPT !.check_counter = c]
       IN  IF L.global_stop # 0
           THEN /\ Set(Return0([L EXCEPT !.lastEntry =
                       EntryRecord(L, L.check_counter, FALSE, NULL, TRUE)]))
                /\ UNCHANGED chan
           ELSE \/ /\ PollDue(c)
                   /\ \E s \in Senders(r) :
                        /\ chan' = [chan EXCEPT ![<<s, r>>] = Tail(@)]
                        /\ Set(Return0([L1 EXCEPT
                                 !.global_solution_found = 1,
                                 !.solution_owner = Head(chan[<<s, r>>]),
                                 !.unread = 0,
                                 !.lastEntry =
                                     EntryRecord(L, c, TRUE,
                                                 Head(chan[<<s, r>>]), TRUE)]))
                \/ /\ ~(PollDue(c) /\ Senders(r) # {})
                   /\ UNCHANGED chan
                   /\ LET L2 == [L1 EXCEPT !.unread = Lag(L1, r)]
                      IN  IF PeerFound(L2)
                          THEN Set(Return0([L2 EXCEPT !.lastEntry =
                                   EntryRecord(L, c, PollDue(c), NULL, TRUE)]))
                          ELSE Set(Continue(
                                   [L2 EXCEPT !.lastEntry =
                                       EntryRecord(L, c, PollDue(c), NULL, FALSE)],
                                   TileLoop(L2.g, f.x, f.y, 0)))
    /\ UNCHANGED <<input, size, sendMode, worldLog, unit>>

\* MPI_Send(&rank, 1, MPI_INT, p, 999, MPI_COMM_WORLD) of the send loop: the
\* message carries the sender's rank. An eager send returns at once and the
\* loop goes on; a rendezvous send waits for the receive.
SendStop(r) ==
    /\ proc[r].pc = "send"
    /\ LET L == [proc[r] EXCEPT !.nsent = @ + 1,
                                !.sentTo[proc[r].sendp] = @ + 1]
       IN  /\ chan' = [chan EXCEPT ![<<r, L.sendp>>] = Append(@, L.rank)]
           /\ IF sendMode = "eager"
              THEN Set(SendLoop(L, L.sendp + 1))
              ELSE Set([L EXCEPT !.pc = "send_wait"])
    /\ UNCHANGED <<input, size, sendMode, worldLog, unit>>

\* A rendezvous MPI_Send returns once the destination has received the message.
SendComplete(r) ==
    /\ proc[r].pc = "send_wait"
    /\ SendDone(r)
    /\ Set(SendLoop(proc[r], proc[r].sendp + 1))
    /\ UNCHANGED <<input, size, sendMode, chan, worldLog, unit>>

\* ------------------------------------------------------- main: the verdict
\* The call of MPI_Comm_split(MPI_COMM_WORLD, 1, rank, &active_comm).
CallSplit(r) ==
    /\ proc[r].pc = "call_split"
    /\ Set([proc[r] EXCEPT !.collIdx = @ + 1, !.pc = "comm_split"])
    /\ worldLog' = IF r = 0 THEN Append(worldLog, [op |-> "split", val |-> 1])
                   ELSE worldLog
    /\ UNCHANGED <<input, size, sendMode, chan, unit>>

\* MPI_Comm_split is collective over MPI_COMM_WORLD: it returns when every
\* process of the communicator has made the call; the new communicator holds
\* the callers of colour 1. Then MPI_Allreduce(MPI_MAX) is called.
CommSplit(r) ==
    /\ proc[r].pc = "comm_split"
    /\ SplitReady(r)
    /\ Set([proc[r] EXCEPT !.active_comm = Procs, !.redIdx = 1,
                           !.pc = "allreduce_max"])
    /\ UNCHANGED <<input, size, sendMode, chan, worldLog, unit>>

\* A plausible slip: the verdict is reduced with MPI_MIN.
SetMax_asMin(S) == CHOOSE m \in S : \A o \in S : m <= o

\* The results of MPI_MAX and MPI_MIN over the contributed values.
SetMax(S) == CHOOSE m \in S : \A o \in S : o <= m

SetMin(S) == CHOOSE m \in S : \A o \in S : m <= o

\* "int has_solution = local_solution ? rank : effective_processes;"
has_solution(L) ==
    IF L.local_solution # 0 THEN L.rank ELSE L.effective_processes

\* MPI_Allreduce(&local_solution, &global_result, MPI_MAX, active_comm)
\* returns when every member has contributed; with a result of 0 the process
\* frees the communicator and goes to the final broadcast.
AllreduceMax(r) ==
    /\ proc[r].pc = "allreduce_max"
    /\ ReduceReady(r, 1)
    /\ LET res == SetMax({proc[q].local_solution : q \in proc[r].active_comm})
       IN  IF res # 0
           THEN Set([proc[r] EXCEPT !.global_result = res,
                       !.solution_found = 1, !.redIdx = 2,
                       !.pc = "allreduce_min"])
           ELSE Set([proc[r] EXCEPT !.global_result = res,
                       !.pc = "final_bcast"])
    /\ UNCHANGED <<input, size, sendMode, chan, worldLog, unit>>

\* print_solution: one "<id> <rotation>" line per cell, row 0 first, each
\* row left to right (cell k - 1 is column (k - 1) % size of row (k - 1) / size).
print_solution(g) ==
    [k \in 1..(g.size * g.size) |->
        LET t == At(g, (k - 1) % g.size, (k - 1) \div g.size)
        IN  <<t.id, t.rotation>>]

\* A plausible slip: the winner is the highest rank that has a solution.
Winner_max(r) ==
    SetMax({IF proc[q].local_solution # 0 THEN q ELSE -1 :
               q \in proc[r].active_comm})

\* MPI_Allreduce(&has_solution, &winner_rank, MPI_MIN, active_comm).
Winner(r) == SetMin({has_solution(proc[q]) : q \in proc[r].active_comm})

\* The second reduction and the printing of the board by the winner.
AllreduceMin(r) ==
    /\ proc[r].pc = "allreduce_min"
    /\ ReduceReady(r, 2)
    /\ LET w == Winner(r)
           L == proc[r]
       IN  Set([L EXCEPT !.winner_rank = w,
                  !.printed = IF L.local_solution # 0 /\ L.rank = w
                              THEN print_solution(L.g) ELSE <<>>,
                  !.pc = "final_bcast"])
    /\ UNCHANGED <<input, size, sendMode, chan, worldLog, unit>>

\* MPI_Bcast(&solution_found, 1, MPI_INT, 0, MPI_COMM_WORLD), MPI_Finalize
\* and "return solution_found ? 0 : 1". A non-root call returns what the
\* root's collective of the same position in the sequence sent.
FinalBcast(r) ==
    /\ proc[r].pc = "final_bcast"
    /\ IF r = 0
       THEN /\ worldLog' = Append(worldLog, Bcast(proc[r].solution_found))
            /\ Set([proc[r] EXCEPT !.collIdx = @ + 1, !.pc = "exit",
                      !.exit_status = IF proc[r].solution_found # 0
                                      THEN 0 ELSE 1])
       ELSE LET k == proc[r].collIdx
            IN  /\ BcastReady(r, 1)
                /\ Set([proc[r] EXCEPT
                          !.solution_found = worldLog[k + 1].val,
                          !.collIdx = @ + 1, !.pc = "exit",
                          !.exit_status = IF worldLog[k + 1].val # 0
                                          THEN 0 ELSE 1])
                /\ UNCHANGED worldLog
    /\ UNCHANGED <<input, size, sendMode, chan, unit>>

Next ==
    \/ \E r \in Procs : Initialize(r)
    \/ \E r \in Procs : BcastNumCorners(r)
    \/ \E r \in Procs : CheckCorners(r)
    \/ \E r \in Procs : BcastGame(r)
    \/ \E r \in Procs : Seed(r)
    \/ \E r \in Procs : FindStart(r)
    \/ \E r \in Procs : PlayEnter(r)
    \/ \E r \in Procs : SendStop(r)
    \/ \E r \in Procs : SendComplete(r)
    \/ \E r \in Procs : CallSplit(r)
    \/ \E r \in Procs : CommSplit(r)
    \/ \E r \in Procs : AllreduceMax(r)
    \/ \E r \in Procs : AllreduceMin(r)
    \/ \E r \in Procs : FinalBcast(r)

Spec == Init /\ [][Next]_vars

\* ================================================================== claims
\* A full valid tiling: every cell occupied, no tile on two cells, colour 0
\* on every side facing the outer boundary, equal colours on every shared
\* edge, each tile read under its current rotation.
FullValidTiling(g) ==
    /\ \A c \in Cells(g.size) : g.board[c] # NULL
    /\ \A c, d \in Cells(g.size) : c # d => g.board[c] # g.board[d]
    /\ \A c \in Cells(g.size) :
          LET x == c[1]
              y == c[2]
              t == At(g, x, y)
          IN  /\ (x = 0 => X_COLOR(t, 3) = 0)
              /\ (y = 0 => X_COLOR(t, 0) = 0)
              /\ (x = g.size - 1 => X_COLOR(t, 1) = 0)
              /\ (y = g.size - 1 => X_COLOR(t, 2) = 0)
              /\ (x < g.size - 1 =>
                    X_COLOR(t, 1) = X_COLOR(At(g, x + 1, y), 3))
              /\ (y < g.size - 1 =>
                    X_COLOR(t, 2) = X_COLOR(At(g, x, y + 1), 0))

\* C1: whenever a process's search returns success (a frame of play is in
\* its success branch, or the top-level call has returned 1), the board of
\* that process is a full valid tiling.
C1_SuccessIsValidTiling ==
    \A r \in Procs :
        (proc[r].local_solution = 1 \/ proc[r].pc \in {"send", "send_wait"})
            => FullValidTiling(proc[r].g)

\* C1 witness: a search on the mixed puzzle has returned success to main.
C1_Witness ==
    \E r \in Procs :
        /\ input = PMix
        /\ proc[r].local_solution = 1
        /\ proc[r].pc = "exit"

\* C2: a process that is still inside its search never makes a full check
\* interval of play entries with a stop notification sitting unread in its
\* mailbox (it polls and consumes within one interval), and once it has
\* consumed one its peer-found flag is set, the payload is recorded as the
\* solution owner, and its top-level search returns failure.
C2_StopWithinCheckInterval ==
    \A r \in Procs :
        /\ proc[r].unread < CheckInterval
        /\ proc[r].global_solution_found = 1 =>
              /\ proc[r].solution_owner \in Procs \ {r}
              /\ proc[r].global_stop = 0
              /\ proc[r].pc \notin {"play", "send", "send_wait"} =>
                    proc[r].local_solution = 0

\* C2 witness: a searching process has made the largest number of entries
\* the interval allows with the notification of a finished peer unread; its
\* next entry is the poll.
C2_Witness ==
    \E r \in Procs, s \in Procs :
        /\ proc[r].pc = "play"
        /\ proc[r].global_solution_found = 0
        /\ proc[r].unread = CheckInterval - 1
        /\ chan[<<s, r>>] # <<>>
        /\ proc[s].global_stop = 1

\* The processes whose own top-level search returned success.
Completers == {q \in Procs : proc[q].local_solution = 1}

\* C3: the winner every process obtains from the minimum-reduction is the
\* lowest rank among the processes that completed a board themselves; only
\* that process prints, what it prints is its own board, and once every
\* process has exited it has printed.
C3_LowestCompleterWinsAndPrints ==
    /\ \A r \in Procs :
          proc[r].winner_rank # -1 =>
              /\ Completers # {}
              /\ proc[r].winner_rank = SetMin(Completers)
    /\ \A r \in Procs :
          proc[r].printed # <<>> =>
              /\ r = SetMin(Completers)
              /\ proc[r].printed = print_solution(proc[r].g)
    /\ ((\A r \in Procs : proc[r].pc = "exit") /\ Completers # {}) =>
          proc[SetMin(Completers)].printed # <<>>

\* C3 witness: two processes completed a board each, every process has
\* exited, and the lower rank is the one that printed.
C3_Witness ==
    /\ Cardinality(Completers) >= 2
    /\ \A r \in Procs : proc[r].pc = "exit"
    /\ proc[SetMin(Completers)].printed # <<>>
    /\ \A r \in Completers \ {SetMin(Completers)} : proc[r].printed = <<>>

\* The corners the enumeration yields for the input, and their number C.
EnumeratedCorners == separar_pecas_de_quina(initialize(input)).corners
C == Len(EnumeratedCorners)

\* Every assignment of distinct tiles and of rotations to the cells of the
\* input's board that is a full valid tiling.
Tilings ==
    LET g0 == initialize(input)
        ids == DOMAIN g0.tiles
    IN  {g \in {[g0 EXCEPT !.board = b,
                           !.tiles = [i \in ids |->
                               [g0.tiles[i] EXCEPT !.rotation = rots[i],
                                                   !.used = 1]]] :
                    b \in [Cells(g0.size) -> ids], rots \in [ids -> Rotations]} :
            FullValidTiling(g)}

\* Some enumerated corner placement (tile, rotation, corner cell) is part of
\* a full valid tiling.
SomeCornerExtends ==
    \E k \in 1..C : \E g \in Tilings :
        LET ci == EnumeratedCorners[k]
        IN  /\ g.board[CornerCell(g, ci.corner_type)] = ci.tile_id
            /\ g.tiles[ci.tile_id].rotation = ci.rotation

AllExited == \A r \in Procs : proc[r].pc = "exit"

\* C4 (as claimed): with W >= C processes and an enumerated corner placement
\* that extends to a valid full tiling, a finished run has a process whose
\* search returned success and reports "solution found".
C4_SolvableCornerReportsSuccess ==
    (AllExited /\ size >= C /\ SomeCornerExtends) =>
        /\ \E r \in Procs : proc[r].local_solution = 1
        /\ \A r \in Procs : proc[r].solution_found # 0 /\ proc[r].exit_status = 0

\* Every process is past its search (or never had one).
SearchOver ==
    \A q \in Procs :
        proc[q].pc \in {"call_split", "comm_split", "allreduce_max",
                        "allreduce_min", "final_bcast", "exit"}

\* C5 (as claimed): once the searches are over, every process that has
\* exited, active or inactive, exited with status 0 if some search found a
\* solution and with status 1 otherwise.
C5_UniformExitStatus ==
    \A r \in Procs :
        (SearchOver /\ proc[r].pc = "exit") =>
            proc[r].exit_status = (IF Completers # {} THEN 0 ELSE 1)

\* Process r is not blocked: it is at a local step, or the MPI call it is in
\* can return.
CanStep(r) ==
    CASE proc[r].pc = "exit" -> FALSE
      [] proc[r].pc = "bcast_num_corners" -> BcastReady(r, 1)
      [] proc[r].pc = "bcast_game" -> BcastReady(r, 4)
      [] proc[r].pc = "final_bcast" -> BcastReady(r, 1)
      [] proc[r].pc = "send_wait" -> SendDone(r)
      [] proc[r].pc = "comm_split" -> SplitReady(r)
      [] proc[r].pc = "allreduce_max" -> ReduceReady(r, 1)
      [] proc[r].pc = "allreduce_min" -> ReduceReady(r, 2)
      [] OTHER -> TRUE

\* C6 (as claimed): no run gets stuck: in every reachable state either every
\* process has reached its exit or some process is not blocked.
C6_NoDeadlock == AllExited \/ \E r \in Procs : CanStep(r)

\* Tile colours cols show colour 0 on two orthogonally adjacent sides in
\* some rotation.
TwoAdjacentBorderSides(cols) ==
    \E rot \in Rotations, s \in Sides :
        LET t == [tile(0, cols) EXCEPT !.rotation = rot]
        IN  X_COLOR(t, s) = 0 /\ X_COLOR(t, (s + 1) % 4) = 0

NoCornerTile ==
    \A i \in 1..Len(input.cols) : ~TwoAdjacentBorderSides(input.cols[i])

\* C7: when no tile of the input has two adjacent border-coloured sides in
\* any rotation, no process becomes active, seeds a board or enters play, no
\* stop notification is sent, no process is ever blocked for good, and every
\* process that exits does so with status 1 straight after the corner count.
C7_ZeroCornersFailAtOnce ==
    NoCornerTile =>
        /\ \A c \in DOMAIN chan : chan[c] = <<>>
        /\ \A r \in Procs :
              /\ proc[r].pc \in {"initialize", "bcast_num_corners",
                                 "check_corners", "exit"}
              /\ proc[r].num_corners = 0
              /\ proc[r].active = 0
              /\ proc[r].corner_idx = NULL
              /\ proc[r].stack = <<>>
              /\ proc[r].check_counter = 0
              /\ proc[r].nsent = 0
              /\ proc[r].local_solution = 0
              /\ proc[r].pc = "exit" => proc[r].exit_status = 1
        /\ AllExited \/ \E r \in Procs : CanStep(r)

\* C7 witness: a 2x2 input without corner tiles, two processes, both exited.
C7_Witness ==
    /\ NoCornerTile
    /\ input.bsize = 2
    /\ size = 2
    /\ \A r \in Procs : proc[r].pc = "exit" /\ proc[r].exit_status = 1

\* The lesser of the number of processes and the number of corners.
MinWC == IF size < C THEN size ELSE C

\* C8: with C >= 1 corners, process r is active iff r < min(W, C); only
\* active processes seed and search; an active process has corner_idx = r
\* (below W and below C), and right after seeding its board holds exactly
\* the tile of CornerInfo[r], in CornerInfo[r]'s rotation, marked used, on
\* the cell of its corner type, and nothing else; two seeded processes hold
\* different corner tiles.
C8_IdentityCornerAssignment ==
    C >= 1 =>
        /\ \A r \in Procs :
              LET L == proc[r]
                  decided == L.pc \notin {"initialize", "bcast_num_corners",
                                          "check_corners"}
                  ci == EnumeratedCorners[r + 1]
              IN  /\ decided => (L.active = 1 <=> r < MinWC)
                  /\ (decided /\ L.active = 0) =>
                        /\ L.pc \in {"final_bcast", "exit"}
                        /\ L.corner_idx = NULL
                        /\ L.stack = <<>>
                        /\ L.check_counter = 0
                  /\ L.corner_idx # NULL =>
                        /\ L.corner_idx = r
                        /\ L.corner_idx < size
                        /\ L.corner_idx < C
                        /\ L.active = 1
                  /\ L.pc \notin {"initialize", "bcast_num_corners",
                                  "check_corners", "bcast_game", "seed",
                                  "final_bcast", "exit"} =>
                        L.corner_idx = r
                  /\ L.pc = "find_start" =>
                        /\ \A c \in Cells(L.g.size) :
                              L.g.board[c] =
                                 IF c = CornerCell(L.g, ci.corner_type)
                                 THEN ci.tile_id ELSE NULL
                        /\ \A i \in DOMAIN L.g.tiles :
                              /\ L.g.tiles[i].used =
                                    (IF i = ci.tile_id THEN 1 ELSE 0)
                              /\ L.g.tiles[i].colors = input.cols[i + 1]
                        /\ L.g.tiles[ci.tile_id].rotation = ci.rotation
        /\ \A r, q \in Procs :
              (r # q /\ proc[r].corner_idx # NULL /\ proc[q].corner_idx # NULL)
                  => EnumeratedCorners[proc[r].corner_idx + 1].tile_id
                       # EnumeratedCorners[proc[q].corner_idx + 1].tile_id

\* C8 witness: more corners than processes; the last process has seeded a
\* corner other than the first and is about to start its search.
C8_Witness ==
    /\ C > size
    /\ size >= 2
    /\ proc[size - 1].pc = "find_start"
    /\ proc[size - 1].corner_idx = size - 1
    /\ proc[0].stack # <<>>

\* ------------------------------------------- the pure functions on their own
\* The process state of the specifications that exercise one function: a
\* single process that has not started.
IdleMain ==
    /\ input = PSingle
    /\ size = 1
    /\ sendMode = "eager"
    /\ proc = [r \in 0..0 |-> ProcInit(r, 1)]
    /\ chan = [c \in (0..0) \X (0..0) |-> <<>>]
    /\ worldLog = <<>>

mainVars == <<input, size, sendMode, proc, chan, worldLog>>

\* A 3x3 input: corner, edge and interior cells.
PThree == [bsize |-> 3,
           cols |-> << <<0, 1, 2, 1>>, <<1, 2, 0, 0>>, <<0, 0, 1, 2>>,
                       <<1, 2, 1, 2>>, <<0, 1, 1, 0>>, <<0, 1, 2, 0>>,
                       <<2, 2, 1, 1>>, <<1, 0, 2, 2>>, <<2, 1, 2, 1>> >>]

\* The boards valid_move is exercised on: the tiles that are put on the
\* board (anywhere, in any rotation) and the tiles offered as candidates.
VMInputs ==
    {[puz |-> PThree, onBoard |-> {0, 1}, cand |-> {2, 3}],
     [puz |-> PMix, onBoard |-> {0, 1, 2}, cand |-> {3}],
     [puz |-> PSingle, onBoard |-> {}, cand |-> {0}]}

InitValidMove ==
    /\ IdleMain
    /\ \E vi \in VMInputs :
          unit = [op |-> "board", g |-> initialize(vi.puz),
                  onBoard |-> vi.onBoard, cand |-> vi.cand]

\* Any tile of the pool that is not on the board is put, marked used and in
\* any rotation, on any empty cell (a board content play could have built
\* or not: valid_move is asked about every board).
VMPlace ==
    /\ unit.op = "board"
    /\ \E i \in unit.onBoard, c \in Cells(unit.g.size), rot \in Rotations :
          /\ unit.g.tiles[i].used = 0
          /\ unit.g.board[c] = NULL
          /\ unit' = [op |-> "board",
                      g |-> [unit.g EXCEPT !.board[c] = i,
                                           !.tiles[i].used = 1,
                                           !.tiles[i].rotation = rot],
                      onBoard |-> unit.onBoard, cand |-> unit.cand]
    /\ UNCHANGED mainVars

\* valid_move(game, x, y, tile) is called for a cell and a candidate tile
\* in a rotation, as play calls it (tile->rotation = rot before the call).
VMCall ==
    /\ unit.op = "board"
    /\ \E i \in unit.cand, c \in Cells(unit.g.size), rot \in Rotations :
          LET g == [unit.g EXCEPT !.tiles[i].rotation = rot]
          IN  unit' = [op |-> "valid_move", g |-> g,
                       onBoard |-> unit.onBoard, cand |-> unit.cand,
                       x |-> c[1], y |-> c[2], i |-> i,
                       ret |-> valid_move(g, c[1], c[2], g.tiles[i])]
    /\ UNCHANGED mainVars

NextValidMove == VMPlace \/ VMCall

SpecValidMove == InitValidMove /\ [][NextValidMove]_vars

\* The tile collections the enumeration is exercised on: every 2x2 input
\* whose tiles are drawn from these colourings (no corner, one corner pair,
\* two, all sides border-coloured), besides every single tile.
CornerSamples ==
    {<<0, 1, 0, 1>>, <<0, 1, 1, 0>>, <<1, 0, 0, 2>>, <<0, 0, 0, 1>>}

InitCorner ==
    /\ IdleMain
    /\ \/ \E cols \in [1..4 -> 0..MaxColor] :
             unit = [op |-> "tile",
                     t |-> tile(0, <<cols[1], cols[2], cols[3], cols[4]>>)]
       \/ \E cs \in [1..4 -> CornerSamples] :
             unit = [op |-> "tiles",
                     g |-> initialize([bsize |-> 2,
                              cols |-> <<cs[1], cs[2], cs[3], cs[4]>>])]

\* eh_peca_de_quina is called on a tile.
QuinaCall ==
    /\ unit.op = "tile"
    /\ unit' = [op |-> "eh_peca_de_quina", t |-> unit.t,
                res |-> eh_peca_de_quina(unit.t)]
    /\ UNCHANGED mainVars

\* separar_pecas_de_quina is called on a freshly read game.
SepararCall ==
    /\ unit.op = "tiles"
    /\ unit' = [op |-> "separar_pecas_de_quina", g |-> unit.g,
                res |-> separar_pecas_de_quina(unit.g)]
    /\ UNCHANGED mainVars

NextCorner == QuinaCall \/ SepararCall

SpecCorner == InitCorner /\ [][NextCorner]_vars

\* The colour a tile shows on side s: a rotation by r quarter turns carries
\* the base colour of side k to side (k + r) mod 4.
Shows(t, s) ==
    t.colors[(CHOOSE k \in Sides : (k + t.rotation) % 4 = s) + 1]

\* The cell across side s of cell (x, y) (0 north, 1 east, 2 south, 3 west;
\* y grows southwards), and the side of that cell facing back.
Across(x, y, s) ==
    CASE s = 0 -> <<x, y - 1>>
      [] s = 1 -> <<x + 1, y>>
      [] s = 2 -> <<x, y + 1>>
      [] s = 3 -> <<x - 1, y>>
Facing(s) == (s + 2) % 4

OnBoundary(g, x, y, s) == Across(x, y, s) \notin Cells(g.size)
OccupiedAcross(g, x, y, s) ==
    /\ Across(x, y, s) \in Cells(g.size)
    /\ g.board[Across(x, y, s)] # NULL

\* can_place as the specification words it.
CanPlace(g, x, y, t) ==
    /\ \A s \in Sides : OnBoundary(g, x, y, s) => Shows(t, s) = 0
    /\ \A s \in Sides :
          OccupiedAcross(g, x, y, s) =>
              Shows(g.tiles[g.board[Across(x, y, s)]], Facing(s)) = Shows(t, s)

\* C9: for every in-bounds cell, board content and rotation of the candidate,
\* valid_move returns true iff every side of the candidate on the board
\* boundary shows colour 0 and every occupied orthogonal neighbour shows on
\* its facing side the colour the candidate shows towards it; in particular
\* it returns false whenever a boundary side of the candidate is not 0.
C9_ValidMoveIsCanPlace ==
    unit.op = "valid_move" =>
        LET t == unit.g.tiles[unit.i]
        IN  /\ unit.ret <=> CanPlace(unit.g, unit.x, unit.y, t)
            /\ (\E s \in Sides : OnBoundary(unit.g, unit.x, unit.y, s)
                                    /\ Shows(t, s) # 0) => ~unit.ret

\* C9 witness: on the 3x3 board a candidate is accepted on a cell with a
\* boundary side and two occupied neighbours.
C9_Witness ==
    /\ unit.op = "valid_move"
    /\ unit.g.size = 3
    /\ unit.ret
    /\ \E s \in Sides : OnBoundary(unit.g, unit.x, unit.y, s)
    /\ Cardinality({s \in Sides :
                       OccupiedAcross(unit.g, unit.x, unit.y, s)}) = 2

\* The two sides of a corner type: NW (north, west), NE (north, east),
\* SW (south, west), SE (south, east).
CornerSides(type) ==
    CASE type = 0 -> {0, 3}
      [] type = 1 -> {0, 1}
      [] type = 2 -> {2, 3}
      [] type = 3 -> {2, 1}

\* Tile t, turned to rotation rot, shows colour 0 on both sides of the type.
Qualifies(t, rot, type) ==
    \A s \in CornerSides(type) : Shows([t EXCEPT !.rotation = rot], s) = 0

\* Some rotation makes two orthogonally adjacent sides both colour 0.
IsCornerTile(t) ==
    \E rot \in Rotations, s \in Sides :
        /\ Shows([t EXCEPT !.rotation = rot], s) = 0
        /\ Shows([t EXCEPT !.rotation = rot], (s + 1) % 4) = 0

\* (rot, type) is the first qualifying pair of t: rotation ascending, then
\* NW, NE, SW, SE.
FirstPair(t, rot, type) ==
    /\ rot \in Rotations
    /\ type \in 0..3
    /\ Qualifies(t, rot, type)
    /\ \A r2 \in Rotations, ty2 \in 0..3 :
          (r2 < rot \/ (r2 = rot /\ ty2 < type)) => ~Qualifies(t, r2, ty2)

\* C10: eh_peca_de_quina reports a match iff the tile is a corner tile, and
\* then returns the first qualifying (rotation, type) pair; the list of
\* separar_pecas_de_quina holds exactly the corner tiles, each once, in
\* ascending id order, each with its first pair.
C10_ClassifierAndEnumeration ==
    /\ unit.op = "eh_peca_de_quina" =>
          /\ unit.res.ret = 1 <=> IsCornerTile(unit.t)
          /\ unit.res.ret \in {0, 1}
          /\ unit.res.ret = 1 =>
                FirstPair(unit.t, unit.res.rotacao_valida, unit.res.tipo_canto)
    /\ unit.op = "separar_pecas_de_quina" =>
          LET cs == unit.res.corners
              ts == unit.g.tiles
          IN  /\ unit.res.num_corner_pieces = Len(cs)
              /\ {cs[k].tile_id : k \in 1..Len(cs)}
                    = {ts[i].id : i \in {j \in DOMAIN ts : IsCornerTile(ts[j])}}
              /\ \A k \in 1..(Len(cs) - 1) : cs[k].tile_id < cs[k + 1].tile_id
              /\ \A k \in 1..Len(cs) :
                    FirstPair(ts[cs[k].tile_id], cs[k].rotation,
                              cs[k].corner_type)

\* C10 witness: a tile that qualifies in several rotations and types was
\* classified by its first pair, which is not the NW type.
C10_Witness ==
    /\ unit.op = "eh_peca_de_quina"
    /\ unit.res.ret = 1
    /\ unit.res.tipo_canto # 0
    /\ \E rot \in Rotations : rot > unit.res.rotacao_valida
                                 /\ Qualifies(unit.t, rot, 0)

\* ------------------------------------------------ the degenerate 2x2 puzzle
\* The input is a 2x2 puzzle whose four tiles are all corner tiles and that
\* has a valid full tiling.
AllCornerSolvable2x2 ==
    /\ input.bsize = 2
    /\ \A i \in 1..Len(input.cols) : TwoAdjacentBorderSides(input.cols[i])
    /\ Tilings # {}

\* C11 (as claimed): for a solvable 2x2 puzzle of four corner tiles the
\* enumeration finds 4 corners and a finished run, whatever the number of
\* processes, has reported success: some search returned success and every
\* process exits with "solution found". (Either the conclusion holds or the
\* input is not such a puzzle.)
C11_AllCorner2x2Succeeds ==
    \/ /\ C = 4
       /\ \A r \in Procs :
             proc[r].pc \notin {"initialize", "bcast_num_corners"} =>
                 proc[r].num_corners = 4
       /\ AllExited =>
             /\ Completers # {}
             /\ \A r \in Procs :
                   proc[r].solution_found # 0 /\ proc[r].exit_status = 0
    \/ ~AllCornerSolvable2x2

\* ------------------------------------------------- the single-worker search
\* The valid full tilings that contain the corner placement of process r:
\* its corner tile, in the enumerated rotation, on the cell of its type.
Extensions(r) ==
    LET ci == EnumeratedCorners[r + 1]
    IN  {g \in Tilings :
            /\ g.board[CornerCell(g, ci.corner_type)] = ci.tile_id
            /\ g.tiles[ci.tile_id].rotation = ci.rotation}

\* Board g holds tiling t: the same tile in the same rotation on every cell.
SameTiling(g, t) ==
    /\ DOMAIN g.board = DOMAIN t.board
    /\ \A c \in DOMAIN t.board :
          /\ g.board[c] = t.board[c]
          /\ g.board[c] # NULL =>
                g.tiles[g.board[c]].rotation = t.tiles[t.board[c]].rotation

\* Process r is back in main after its search (or after finding no cell to
\* start it on).
PastSearch(r) ==
    proc[r].pc \in {"call_split", "comm_split", "allreduce_max",
                    "allreduce_min", "final_bcast", "exit"}

\* C12 (as claimed): with a single process whose corner placement extends to
\* exactly one valid full tiling, the search has returned success and the
\* board it leaves is that tiling, tile id and rotation of every cell.
\* (Either the conclusion holds or the run is not such a run.)
C12_SingleWorkerFindsTheTiling ==
    \/ size # 1
    \/ C = 0
    \/ ~(PastSearch(0) /\ proc[0].active = 1)
    \/ /\ proc[0].local_solution = 1
       /\ \E t \in Extensions(0) : SameTiling(proc[0].g, t)
    \/ Cardinality(Extensions(0)) # 1

\* ---------------------------------------------------- the stop notification
\* C13 (as claimed): a process never sends more than one stop notification
\* to the same peer, and a process whose search has returned success to main
\* has sent exactly one to every other process of the run.
C13_OneNotificationPerPeer ==
    \A w \in Procs : \A p \in Procs \ {w} :
        /\ proc[w].sentTo[p] <= 1
        /\ proc[w].local_solution = 1 => proc[w].sentTo[p] = 1

\* -------------------------------------------------- the reductions as barrier
\* The active processes of the run: the ranks below min(W, C).
ActiveRanks == 0..(MinWC - 1)

\* Process r holds the result of the maximum-reduction: it is past line 497.
ObtainedMax(r) ==
    /\ proc[r].active = 1
    /\ proc[r].pc \in {"allreduce_min", "final_bcast", "exit"}

\* Process r holds the result of the minimum-reduction: it is past line 505.
ObtainedMin(r) ==
    /\ proc[r].active = 1
    /\ proc[r].global_result # 0
    /\ proc[r].pc \in {"final_bcast", "exit"}

\* C14: when an active process holds the result of the maximum-reduction
\* (of the minimum-reduction), every active process has left its search, no
\* frame of play remaining, and has itself called that reduction.
C14_ReductionsAreBarrier ==
    \A r \in Procs :
        /\ ObtainedMax(r) =>
              \A q \in ActiveRanks :
                  /\ PastSearch(q)
                  /\ proc[q].stack = <<>>
                  /\ proc[q].redIdx >= 1
        /\ ObtainedMin(r) =>
              \A q \in ActiveRanks :
                  /\ PastSearch(q)
                  /\ proc[q].stack = <<>>
                  /\ proc[q].redIdx >= 2

\* C14 witness: a process holds the result of the minimum-reduction in a run
\* where one search returned by success and another by peer notification.
C14_Witness ==
    \E r \in Procs, q \in Procs :
        /\ ObtainedMin(r)
        /\ proc[r].local_solution = 1
        /\ proc[q].active = 1
        /\ proc[q].global_solution_found = 1
        /\ proc[q].local_solution = 0

\* ------------------------------------------------------- entries after a stop
\* C15: an entry of play made when the search had already been told to stop
\* (global_stop or global_solution_found set) returned 0 before the tile
\* loop, so without placing a tile, touching a used flag or the board; an
\* entry called MPI_Iprobe only if the counter it tested was a multiple of
\* the check interval; and an entry that received a notification had probed,
\* set the peer-found flag and recorded the payload as solution owner.
C15_StoppedEntriesReturnAtOnce ==
    \A r \in Procs :
        LET le == proc[r].lastEntry
        IN  /\ le.told => le.atOnce
            /\ le.probed => (le.counter > 0 /\ le.counter % CheckInterval = 0)
            /\ le.payload # NULL =>
                  /\ le.probed
                  /\ le.atOnce
                  /\ proc[r].global_solution_found = 1
                  /\ proc[r].solution_owner = le.payload
                  /\ le.payload \in Procs \ {r}

\* C15 witness: a process that consumed a notification earlier has since
\* entered play again, in a caller's next attempt, and is still searching.
C15_Witness ==
    \E r \in Procs :
        /\ proc[r].lastEntry.told
        /\ proc[r].lastEntry.payload = NULL
        /\ proc[r].lastEntry.atOnce
        /\ proc[r].global_solution_found = 1
        /\ proc[r].pc = "play"

\* ------------------------------------------------------ the run-level verdict
\* C16: an active process that holds the result of the maximum-reduction
\* holds "solution found" (global_result and solution_found non-zero) iff
\* the search of at least one active process returned success, whatever its
\* own search returned.
C16_VerdictIsDisjunction ==
    \A r \in Procs :
        ObtainedMax(r) =>
            /\ proc[r].global_result # 0 <=>
                  (\E q \in ActiveRanks : proc[q].local_solution # 0)
            /\ proc[r].solution_found # 0 <=>
                  (\E q \in ActiveRanks : proc[q].local_solution # 0)

\* C16 witness: a process whose own search failed holds "solution found"
\* because a peer's search succeeded.
C16_Witness ==
    \E r \in Procs, q \in Procs :
        /\ ObtainedMax(r)
        /\ proc[r].local_solution = 0
        /\ proc[r].global_result # 0
        /\ proc[r].solution_found # 0
        /\ proc[q].local_solution = 1

\* ------------------------------------------- classification leaves no trace
\* C17: after separar_pecas_de_quina has returned, every tile has the
\* rotation, used flag, colours and id it had before the call, corner tile or
\* not, and the board is untouched.
C17_EnumerationRestoresTiles ==
    unit.op = "separar_pecas_de_quina" =>
        /\ DOMAIN unit.res.g.tiles = DOMAIN unit.g.tiles
        /\ \A i \in DOMAIN unit.g.tiles :
              /\ unit.res.g.tiles[i].rotation = unit.g.tiles[i].rotation
              /\ unit.res.g.tiles[i].used = unit.g.tiles[i].used
              /\ unit.res.g.tiles[i].colors = unit.g.tiles[i].colors
              /\ unit.res.g.tiles[i].id = unit.g.tiles[i].id
        /\ unit.res.g.board = unit.g.board

\* C17 witness: the enumeration has run over a collection with a corner
\* tile and a tile the classifier turned through all four rotations.
C17_Witness ==
    /\ unit.op = "separar_pecas_de_quina"
    /\ unit.res.num_corner_pieces >= 1
    /\ \E i \in DOMAIN unit.g.tiles :
          /\ eh_peca_de_quina(unit.g.tiles[i]).ret = 0
          /\ eh_peca_de_quina(unit.g.tiles[i]).t.rotation
                # unit.g.tiles[i].rotation

\* ------------------------------------------------------- the board invariant
\* C18: on the board of every process, at every step of its run, no tile is
\* referenced by two cells and every tile referenced by a cell is marked
\* used.
C18_NoTileTwiceAndPlacedIsUsed ==
    \A r \in Procs :
        LET g == proc[r].g
        IN  /\ \A c, d \in DOMAIN g.board :
                  (c # d /\ g.board[c] # NULL) => g.board[c] # g.board[d]
            /\ \A c \in DOMAIN g.board :
                  g.board[c] # NULL =>
                      /\ g.board[c] \in DOMAIN g.tiles
                      /\ g.tiles[g.board[c]].used = 1

\* C18 witness: a search two calls deep on a board seeded away from NW,
\* with three cells occupied.
C18_Witness ==
    \E r \in Procs :
        /\ proc[r].pc = "play"
        /\ Len(proc[r].stack) >= 2
        /\ proc[r].corners[proc[r].corner_idx + 1].corner_type # 0
        /\ Cardinality({c \in DOMAIN proc[r].g.board :
                           proc[r].g.board[c] # NULL}) >= 3

\* ------------------------------------------------------ backtracking restores
\* C19 (as claimed): every call of play that has returned 0 left the board
\* (which tile, if any, is on each cell) and every used flag exactly as it
\* found them on entry, whatever the corner type of the seeded tile.
C19_FailureRestoresState ==
    \A r \in Procs : proc[r].unrestored = {}

\* ------------------------------------------------------------ the seed stays
\* C20 (as claimed): from its seeding on, through the search and after its
\* return, the corner tile of a process is on the cell of its corner type,
\* in its assigned rotation and marked used, whatever the corner type.
C20_SeedStaysInPlace ==
    \A r \in Procs :
        proc[r].corner_idx # NULL =>
            LET ci == proc[r].corners[proc[r].corner_idx + 1]
                g == proc[r].g
            IN  /\ g.board[CornerCell(g, ci.corner_type)] = ci.tile_id
                /\ g.tiles[ci.tile_id].rotation = ci.rotation
                /\ g.tiles[ci.tile_id].used = 1

\* ------------------------------------------- success excludes notification
\* C21: on every process, local success and peer notification exclude each
\* other: a process whose peer-found flag is set is never in a success
\* branch of play and its top-level search does not return success; a
\* process that has set its own stop flag or whose search returned success
\* has the peer-found flag clear and no solution owner recorded.
C21_SuccessExcludesNotification ==
    \A r \in Procs :
        /\ proc[r].global_solution_found # 0 =>
              /\ proc[r].local_solution = 0
              /\ proc[r].global_stop = 0
              /\ proc[r].pc \notin {"send", "send_wait"}
              /\ proc[r].nsent = 0
        /\ (proc[r].local_solution # 0 \/ proc[r].global_stop # 0) =>
              /\ proc[r].global_solution_found = 0
              /\ proc[r].solution_owner = -1

\* C21 witness: in one run a process was notified while it still had
\* candidates to try and its search has returned failure, and the search of
\* the notifying process has returned success.
C21_Witness ==
    \E r \in Procs, q \in Procs :
        /\ proc[r].global_solution_found = 1
        /\ proc[r].solution_owner = q
        /\ proc[r].lastEntry.told
        /\ PastSearch(r)
        /\ proc[r].local_solution = 0
        /\ proc[q].local_solution = 1
        /\ proc[q].solution_owner = -1

====
